---- MODULE Spec2Model ----
(***************************************************************************)
(* Model of the Pharos MCP server (src/src/index.ts).                      *)
(*                                                                         *)
(* Two entry points are modelled:                                          *)
(*   - the pharos_graphql_query tool: argument validation by the zod       *)
(*     schema, the handler, and executePharosGraphQLQuery with its three   *)
(*     suspension points (await fetch, await response.json(),              *)
(*     await response.text());                                             *)
(*   - the worker's fetch handler, which routes by URL pathname.           *)
(*                                                                         *)
(* JavaScript strings are TLA+ strings.  A JavaScript value is a tree of   *)
(* nodes [t, s, n, e, kids]; a JSON text is the same tree read as syntax   *)
(* (white space is not modelled), except that an upstream response body is *)
(* the character string received on the wire.                              *)
(***************************************************************************)
EXTENDS Integers, Sequences, FiniteSets, TLC

\* ------------------------------------------------------------------ bounds

\* Number of tool invocations the hosting runtime runs concurrently.
NumInvocations == 2

Inv == 1..NumInvocations

\* ------------------------------------------------- constants of the program

PHAROS_GRAPHQL_ENDPOINT == "https://pharos-api.ncats.io/graphql"

\* query.slice(0, 200) in the handler's diagnostic line
QueryPreviewLimit == 200

\* errorText.slice(0, 1000) in the non-JSON result
ResponseTextLimit == 1000

\* status of the fallback response of the worker's fetch handler
NotFoundStatus == 404

\* ------------------------------------------------------------------ strings

Min(a, b) == IF a <= b THEN a ELSE b

\* String.prototype.slice(0, n)
Slice(s, n) == SubSeq(s, 1, Min(Len(s), n))

\* String.prototype.startsWith(prefix)
StartsWith(s, prefix) ==
    /\ Len(s) >= Len(prefix)
    /\ SubSeq(s, 1, Len(prefix)) = prefix

RECURSIVE Repeat(_, _)
\* String.prototype.repeat(n), used only to build long inputs
Repeat(c, n) ==
    IF n = 0 THEN ""
    ELSE IF n % 2 = 0 THEN LET h == Repeat(c, n \div 2) IN h \o h
    ELSE c \o Repeat(c, n - 1)

\* ------------------------------------------------------- JavaScript values

JUndefined == [t |-> "undefined", s |-> "", n |-> 0, e |-> 0, kids |-> <<>>]
JNull == [t |-> "null", s |-> "", n |-> 0, e |-> 0, kids |-> <<>>]
JTrue == [t |-> "bool", s |-> "true", n |-> 0, e |-> 0, kids |-> <<>>]
JStr(x) == [t |-> "str", s |-> x, n |-> 0, e |-> 0, kids |-> <<>>]
\* the number m * 10^x; as syntax, the literal with that mantissa and exponent
JNumE(m, x) == [t |-> "num", s |-> "", n |-> m, e |-> x, kids |-> <<>>]
JNum(m) == JNumE(m, 0)
\* the IEEE-754 value Infinity
JInfinity == [t |-> "num", s |-> "Infinity", n |-> 0, e |-> 0, kids |-> <<>>]
\* an object: members is a sequence of [k, v], in insertion order
JObj(members) == [t |-> "obj", s |-> "", n |-> 0, e |-> 0, kids |-> members]
JArr(elems) ==
    [t |-> "arr", s |-> "", n |-> 0, e |-> 0,
     kids |-> [i \in 1..Len(elems) |-> [k |-> "", v |-> elems[i]]]]
M(key, val) == [k |-> key, v |-> val]

\* the object's own property `key` (undefined when absent)
Get(obj, key) ==
    IF \E i \in DOMAIN obj.kids : obj.kids[i].k = key
    THEN obj.kids[CHOOSE i \in DOMAIN obj.kids : obj.kids[i].k = key].v
    ELSE JUndefined

HasKey(obj, key) == \E i \in DOMAIN obj.kids : obj.kids[i].k = key

\* JavaScript truthiness, as tested by `if (variables)`
Truthy(v) ==
    CASE v.t = "undefined" -> FALSE
      [] v.t = "null" -> FALSE
      [] v.t = "str" -> v.s # ""
      [] v.t = "num" -> v.s = "Infinity" \/ v.n # 0
      [] OTHER -> TRUE

\* String(v), for the values a rejection can carry
JsString(v) ==
    CASE v.t = "str" -> v.s
      [] v.t = "null" -> "null"
      [] v.t = "undefined" -> "undefined"
      [] v.t = "bool" -> v.s
      [] v.t = "num" -> IF v.s = "Infinity" THEN "Infinity" ELSE ToString(v.n)
      [] OTHER -> "[object Object]"

RECURSIVE DefinedMembers(_, _)
\* the members of kids that JSON.stringify keeps in an object (undefined dropped)
DefinedMembers(kids, i) ==
    IF i > Len(kids) THEN <<>>
    ELSE (IF kids[i].v.t = "undefined" THEN <<>> ELSE <<kids[i]>>)
         \o DefinedMembers(kids, i + 1)

RECURSIVE JSONstringify(_)
\* JSON.stringify(value, null, 2): the JSON text, as a syntax tree.  A
\* non-finite number is written as null; in an object an undefined member is
\* left out, in an array it is written as null.
JSONstringify(v) ==
    CASE v.t = "num" -> IF v.s = "Infinity" THEN JNull ELSE v
      [] v.t = "undefined" -> JNull
      [] v.t = "obj" ->
           LET kept == DefinedMembers(v.kids, 1)
           IN  JObj([i \in 1..Len(kept) |-> M(kept[i].k, JSONstringify(kept[i].v))])
      [] v.t = "arr" ->
           [v EXCEPT !.kids = [i \in 1..Len(v.kids) |-> M("", JSONstringify(v.kids[i].v))]]
      [] OTHER -> v

RECURSIVE SyntaxToValue(_)
\* the value JSON.parse builds from a syntax tree: a number literal beyond
\* the double range (about 1.8e308) becomes Infinity
SyntaxToValue(x) ==
    CASE x.t = "num" -> IF x.e > 308 THEN JInfinity ELSE x
      [] x.t \in {"obj", "arr"} ->
           [x EXCEPT !.kids = [i \in 1..Len(x.kids) |-> M(x.kids[i].k, SyntaxToValue(x.kids[i].v))]]
      [] OTHER -> x

\* ---------------------------------------------------------------- inputs

TargetQuery == "{ target(q: { uniprot: \"P05067\" }) { name tdl } }"

\* a query one character longer than the diagnostic preview
LongQuery == "{" \o Repeat("a", QueryPreviewLimit - 1) \o "}"

\* The arguments a tool call can carry: query and variables as they arrive in
\* the call, before the input schema has seen them.
ToolArguments ==
    { [query |-> JStr(TargetQuery), variables |-> JUndefined],
      [query |-> JStr(""), variables |-> JObj(<<>>)],
      [query |-> JStr(LongQuery), variables |-> JObj(<<M("id", JStr("P05067"))>>)],
      [query |-> JNum(42), variables |-> JUndefined],
      [query |-> JUndefined, variables |-> JObj(<<>>)],
      [query |-> JStr(TargetQuery), variables |-> JArr(<<JStr("P05067")>>)] }

DataBodyText == "{\"data\":{\"tdl\":\"Tclin\"}}"
ErrorsBodyText == "{\"errors\":[{\"message\":\"Syntax Error\"}]}"
HugeBodyText == "{\"data\":{\"score\":1e400}}"
NotFoundBodyText == "{\"message\":\"Not Found\"}"
HtmlBodyText == "<html>502 Bad Gateway</html>"
\* a non-JSON body one character longer than the returned capture
LongBodyText == "<" \o Repeat("x", ResponseTextLimit)

\* The JSON grammar over the bodies the upstream sends: the syntax tree of a
\* body that is a JSON text.
JSONsyntax(text) ==
    CASE text = DataBodyText -> JObj(<<M("data", JObj(<<M("tdl", JStr("Tclin"))>>))>>)
      [] text = ErrorsBodyText ->
           JObj(<<M("errors", JArr(<<JObj(<<M("message", JStr("Syntax Error"))>>)>>))>>)
      [] text = HugeBodyText -> JObj(<<M("data", JObj(<<M("score", JNumE(1, 400))>>))>>)
      [] text = NotFoundBodyText -> JObj(<<M("message", JStr("Not Found"))>>)

IsJSON(text) == text \in {DataBodyText, ErrorsBodyText, HugeBodyText, NotFoundBodyText}

\* JSON.parse(text), for a text that is JSON
JSONparse(text) == SyntaxToValue(JSONsyntax(text))

\* a thrown value: an Error with a message, or any other value
ErrorOf(msg) == [isError |-> TRUE, message |-> msg, value |-> JUndefined]
Thrown(v) == [isError |-> FALSE, message |-> "", value |-> v]
NoError == [isError |-> FALSE, message |-> "", value |-> JUndefined]

\* What the network does with one POST: a response (status, body), or a
\* rejection of the fetch promise.
Responded(st, text) ==
    [kind |-> "response", status |-> st, hasBody |-> TRUE, body |-> text, error |-> NoError]
\* a response with a null body (a null-body status such as 204)
RespondedNoBody(st) ==
    [kind |-> "response", status |-> st, hasBody |-> FALSE, body |-> "", error |-> NoError]
Rejected(err) ==
    [kind |-> "reject", status |-> 0, hasBody |-> FALSE, body |-> "", error |-> err]
NoAnswer ==
    [kind |-> "none", status |-> 0, hasBody |-> FALSE, body |-> "", error |-> NoError]

UpstreamResponses ==
    { Responded(200, DataBodyText), Responded(200, ErrorsBodyText),
      Responded(200, HugeBodyText), Responded(404, NotFoundBodyText),
      Responded(500, HtmlBodyText),
      Responded(200, LongBodyText), RespondedNoBody(204) }

UpstreamRejections ==
    { Rejected(ErrorOf("connect ECONNREFUSED")), Rejected(Thrown(JNull)) }

\* ----------------------------------------------------------------- state

VARIABLES
    pc,        \* pc[i]: where invocation i stands
    args,      \* args[i]: the arguments of tool call i
    logged,    \* logged[i]: the query preview invocation i wrote to stderr
    request,   \* request[i]: the request invocation i handed to fetch
    posts,     \* posts[i]: how many times invocation i called fetch
    upstream,  \* upstream[i]: what the network answered to invocation i's POST
    response,  \* response[r]: the Response object held in slot r
    result,    \* result[i]: what executePharosGraphQLQuery returned
    outcome,   \* outcome[i]: the return statement it returned from
    envelope,  \* envelope[i]: what the tool handler returned
    httpRequest,   \* the last request given to the worker's fetch handler
    httpResponse   \* what the fetch handler answered

vars == <<pc, args, logged, request, posts, upstream, response, result, outcome,
          envelope, httpRequest, httpResponse>>

toolVars == <<pc, args, logged, request, posts, upstream, response, result, outcome,
              envelope>>

NoArgs == [query |-> JUndefined, variables |-> JUndefined]
NoHeaders == [ContentType |-> "", UserAgent |-> ""]
NoRequest == [url |-> "", method |-> "", headers |-> NoHeaders, body |-> JUndefined]
NoResponse == [status |-> 0, hasBody |-> FALSE, body |-> "", bodyUsed |-> FALSE]
NoEnvelope == [content |-> <<>>]
NoHttpRequest == [method |-> "", url |-> "", accept |-> "", body |-> ""]
NoHttpResponse == [handler |-> "", status |-> 0, ContentType |-> "", body |-> ""]

Init ==
    /\ pc = [i \in Inv |-> "idle"]
    /\ args = [i \in Inv |-> NoArgs]
    /\ logged = [i \in Inv |-> ""]
    /\ request = [i \in Inv |-> NoRequest]
    /\ posts = [i \in Inv |-> 0]
    /\ upstream = [i \in Inv |-> NoAnswer]
    /\ response = [i \in Inv |-> NoResponse]
    /\ result = [i \in Inv |-> JUndefined]
    /\ outcome = [i \in Inv |-> "none"]
    /\ envelope = [i \in Inv |-> NoEnvelope]
    /\ httpRequest = NoHttpRequest
    /\ httpResponse = NoHttpResponse

\* ------------------------------------------------- the tool's input schema


\* a schema that asks for a non-empty string: z.string().min(1)
QuerySchemaNonEmpty(v) == v.t = "str" /\ v.s # ""

\* query: z.string()
QuerySchema(v) == v.t = "str"

\* variables: z.record(z.any()).optional()
VariablesSchema(v) == v.t \in {"undefined", "obj"}

\* the tool's input schema accepts the arguments
SchemaAccepts(a) == QuerySchema(a.query) /\ VariablesSchema(a.variables)

\* ------------------------------------------------------ the tool's handler

\* `${query.slice(0, 200)}`, the query as the handler's diagnostic line shows it
QueryPreview(query) == Slice(query, QueryPreviewLimit)

\* a body built from the truncated preview instead of the query
bodyDataFromPreview(query, variables) ==
    JObj(<<M("query", JStr(QueryPreview(query)))>>
         \o (IF Truthy(variables) THEN <<M("variables", variables)>> ELSE <<>>))

headers ==
    [ContentType |-> "application/json",
     UserAgent |-> "MCPPharosServer/1.0.0 (ModelContextProtocol; +https://modelcontextprotocol.io)"]

\* const bodyData = { query }; if (variables) bodyData.variables = variables;
bodyData(query, variables) ==
    JObj(<<M("query", JStr(query))>>
         \o (IF Truthy(variables) THEN <<M("variables", variables)>> ELSE <<>>))

\* the argument of fetch
UpstreamRequest(query, variables) ==
    [url |-> PHAROS_GRAPHQL_ENDPOINT, method |-> "POST", headers |-> headers,
     body |-> JSONstringify(bodyData(query, variables))]


\* a status test that takes only the 5xx statuses for failures
OkBelow500(status) == status >= 200 /\ status < 500

\* Response.ok
Ok(status) == status >= 200 /\ status <= 299

\* the result returned when the body is not JSON
NonJsonResult(status, errorText) ==
    JObj(<<M("errors", JArr(<<JObj(<<
        M("message", JStr("Pharos API Error " \o ToString(status) \o ": Non-JSON response.")),
        M("extensions", JObj(<<
            M("statusCode", JNum(status)),
            M("responseText", JStr(Slice(errorText, ResponseTextLimit)))>>))>>)>>))>>)

\* the result returned when the status is not ok
HttpErrorResult(status, responseBody) ==
    JObj(<<M("errors", JArr(<<JObj(<<
        M("message", JStr("Pharos API HTTP Error " \o ToString(status))),
        M("extensions", JObj(<<
            M("statusCode", JNum(status)),
            M("responseBody", responseBody)>>))>>)>>))>>)


\* a catch block that keeps its initial message for a value that is no Error
errorMessageDefault(error) ==
    IF error.isError THEN error.message
    ELSE "An unexpected client-side error occurred while attempting to query the Pharos GraphQL API."

\* error instanceof Error ? error.message : String(error)
errorMessage(error) == IF error.isError THEN error.message ELSE JsString(error.value)

\* the result returned by the catch block
ClientErrorResult(error) ==
    JObj(<<M("errors", JArr(<<JObj(<<
        M("message", JStr(errorMessage(error))),
        M("extensions", JObj(<<M("clientError", JTrue)>>))>>)>>))>>)

\* what the handler returns for the executor's result
Envelope(r) == [content |-> <<[type |-> "text", text |-> JSONstringify(r)]>>]

\* executePharosGraphQLQuery returns r from the return statement `site`, and
\* the handler, resumed, returns the envelope.
Return(i, r, site) ==
    /\ result' = [result EXCEPT ![i] = r]
    /\ outcome' = [outcome EXCEPT ![i] = site]
    /\ envelope' = [envelope EXCEPT ![i] = Envelope(r)]
    /\ pc' = [pc EXCEPT ![i] = "done"]


\* a catch block that throws the error on: the handler's promise rejects
CatchBlockRethrows(i, error) ==
    /\ pc' = [pc EXCEPT ![i] = "threw"]
    /\ UNCHANGED <<result, outcome, envelope>>

\* catch (error) { ... } around the whole of executePharosGraphQLQuery
CatchBlock(i, error) == Return(i, ClientErrorResult(error), "TransportFailure")


\* the response kept in one field of the agent, shared by all invocations
ResponseRefShared(i) == 1

\* the slot that holds invocation i's `const response`: its own
ResponseRef(i) == i

\* The body cannot be read: it is not null and has been read already.
Unusable(r) == r.hasBody /\ r.bodyUsed

\* the TypeError of a body read twice (the text is the workerd runtime's)
BodyUsedError ==
    ErrorOf("Body has already been used. It can only be used once. Use tee() first if you need to read it twice.")

\* ---------------------------------------------------------------- actions

\* A tool call whose arguments the input schema refuses: the handler is not run.
ToolCallRefused(i) ==
    /\ pc[i] = "idle"
    /\ \E a \in ToolArguments :
        /\ ~SchemaAccepts(a)
        /\ args' = [args EXCEPT ![i] = a]
    /\ pc' = [pc EXCEPT ![i] = "refused"]
    /\ UNCHANGED <<logged, request, posts, upstream, response, result, outcome,
                   envelope, httpRequest, httpResponse>>

\* A tool call the schema accepts: the handler logs the preview and calls
\* executePharosGraphQLQuery, which runs up to `await fetch(...)`.
ToolCall(i) ==
    /\ pc[i] = "idle"
    /\ \E a \in ToolArguments :
        /\ SchemaAccepts(a)
        /\ args' = [args EXCEPT ![i] = a]
        /\ logged' = [logged EXCEPT ![i] = QueryPreview(a.query.s)]
        /\ request' = [request EXCEPT ![i] = UpstreamRequest(a.query.s, a.variables)]
    /\ posts' = [posts EXCEPT ![i] = @ + 1]
    /\ pc' = [pc EXCEPT ![i] = "awaiting"]
    /\ UNCHANGED <<upstream, response, result, outcome, envelope, httpRequest,
                   httpResponse>>

\* fetch resolves with a Response; the executor goes on to `await response.json()`.
FetchResolved(i) ==
    /\ pc[i] = "awaiting"
    /\ \E a \in UpstreamResponses :
        /\ upstream' = [upstream EXCEPT ![i] = a]
        /\ response' = [response EXCEPT ![ResponseRef(i)] =
                          [status |-> a.status, hasBody |-> a.hasBody, body |-> a.body,
                           bodyUsed |-> FALSE]]
    /\ pc' = [pc EXCEPT ![i] = "parsing"]
    /\ UNCHANGED <<args, logged, request, posts, result, outcome, envelope,
                   httpRequest, httpResponse>>


\* a rejection answered by one more attempt before giving up
FetchRejectedRetries(i) ==
    /\ pc[i] = "awaiting"
    /\ \E a \in UpstreamRejections :
        /\ upstream' = [upstream EXCEPT ![i] = a]
        /\ IF posts[i] < 2
           THEN /\ posts' = [posts EXCEPT ![i] = @ + 1]
                /\ UNCHANGED <<pc, result, outcome, envelope>>
           ELSE /\ CatchBlock(i, a.error)
                /\ UNCHANGED posts
    /\ UNCHANGED <<args, logged, request, response, httpRequest, httpResponse>>

\* fetch rejects: the catch block returns.
FetchRejected(i) ==
    /\ pc[i] = "awaiting"
    /\ \E a \in UpstreamRejections :
        /\ upstream' = [upstream EXCEPT ![i] = a]
        /\ CatchBlock(i, a.error)
    /\ UNCHANGED <<args, logged, request, posts, response, httpRequest, httpResponse>>

\* response.json() resolves: the body is read and is JSON.
JsonResolved(i) ==
    /\ pc[i] = "parsing"
    /\ LET r == response[ResponseRef(i)] IN
        /\ ~Unusable(r) /\ r.hasBody /\ IsJSON(r.body)
        /\ response' = [response EXCEPT ![ResponseRef(i)].bodyUsed = TRUE]
        /\ LET responseBody == JSONparse(r.body) IN
            IF ~Ok(r.status)
            THEN Return(i, HttpErrorResult(r.status, responseBody), "GraphQLHttpError")
            ELSE Return(i, responseBody, "Success")
    /\ UNCHANGED <<args, logged, request, posts, upstream, httpRequest, httpResponse>>

\* response.json() rejects: the body cannot be read, or it is read and is not
\* JSON (a null body reads as the empty text).  The inner catch goes on to
\* `await response.text()`.
JsonRejected(i) ==
    /\ pc[i] = "parsing"
    /\ LET r == response[ResponseRef(i)] IN
        /\ Unusable(r) \/ ~r.hasBody \/ ~IsJSON(r.body)
        /\ response' = [response EXCEPT ![ResponseRef(i)].bodyUsed = r.hasBody]
    /\ pc' = [pc EXCEPT ![i] = "reading_text"]
    /\ UNCHANGED <<args, logged, request, posts, upstream, result, outcome, envelope,
                   httpRequest, httpResponse>>

\* response.text() resolves: the non-JSON result is returned.
TextResolved(i) ==
    /\ pc[i] = "reading_text"
    /\ LET r == response[ResponseRef(i)] IN
        /\ ~Unusable(r)
        /\ response' = [response EXCEPT ![ResponseRef(i)].bodyUsed = r.hasBody]
        /\ LET errorText == IF r.hasBody THEN r.body ELSE "" IN
            Return(i, NonJsonResult(r.status, errorText), "NonJsonResponse")
    /\ UNCHANGED <<args, logged, request, posts, upstream, httpRequest, httpResponse>>

\* response.text() rejects because the body has been read: the TypeError
\* leaves the inner catch and the outer catch block returns.
TextRejected(i) ==
    /\ pc[i] = "reading_text"
    /\ Unusable(response[ResponseRef(i)])
    /\ CatchBlock(i, BodyUsedError)
    /\ UNCHANGED <<args, logged, request, posts, upstream, response, httpRequest,
                   httpResponse>>

Next ==
    \E i \in Inv :
        \/ ToolCallRefused(i)
        \/ ToolCall(i)
        \/ FetchResolved(i)
        \/ FetchRejected(i)
        \/ JsonResolved(i)
        \/ JsonRejected(i)
        \/ TextResolved(i)
        \/ TextRejected(i)

Spec == Init /\ [][Next]_vars

\* ------------------------------------------------ the worker's fetch handler

RECURSIVE PathEnd(_, _)
\* the index of the last character of url before the first "?" or "#"
PathEnd(url, i) ==
    IF i > Len(url) \/ SubSeq(url, i, i) \in {"?", "#"} THEN i - 1
    ELSE PathEnd(url, i + 1)

\* new URL(request.url).pathname; url is modelled from its path on
Pathname(url) == SubSeq(url, 1, PathEnd(url, 1))


\* a prefix test without the separating slash
IsSsePathPrefix(pathname) == StartsWith(pathname, "/sse")

\* url.pathname === "/sse" || url.pathname.startsWith("/sse/")
IsSsePath(pathname) == pathname = "/sse" \/ StartsWith(pathname, "/sse/")

NotFoundBody ==
    "Pharos MCP Server - Path not found.\nAvailable MCP paths:\n- /sse (for Server-Sent Events transport)"

\* the fallback response
NotFoundResponse ==
    [handler |-> "fallback", status |-> NotFoundStatus, ContentType |-> "text/plain",
     body |-> NotFoundBody]

RequestUrls ==
    { "/sse", "/sse/", "/sse/message", "/sse?sessionId=1", "/sse/message?sessionId=1",
      "/ssefoo", "/", "/mcp", "/SSE", "/api/sse" }

HttpRequests ==
    [method : {"GET", "POST", "DELETE"}, url : RequestUrls,
     accept : {"text/event-stream", "*/*"}, body : {"", "{}"}]

\* the statuses the event-stream transport answers with; they are its own
SseStatuses == {200, 404}

\* export default { async fetch(request, env, ctx) { ... } }
WorkerFetch ==
    /\ \E req \in HttpRequests :
        /\ httpRequest' = req
        /\ IF IsSsePath(Pathname(req.url))
           THEN \E st \in SseStatuses :
                    httpResponse' = [handler |-> "serveSSE", status |-> st,
                                     ContentType |-> "text/event-stream", body |-> ""]
           ELSE httpResponse' = NotFoundResponse
    /\ UNCHANGED toolVars

RouteNext == WorkerFetch

RouteSpec == Init /\ [][RouteNext]_vars

\* ----------------------------------------------------------- properties

Started(i) == pc[i] \in {"awaiting", "parsing", "reading_text", "done"}

Done(i) == pc[i] = "done"

\* the one element of the result's errors array, and its extensions
FirstError(r) == Get(r, "errors").kids[1].v
Extensions(r) == Get(FirstError(r), "extensions")

\* the shape { errors: [ { message, extensions } ] } of the three failure results
IsErrorShape(r) ==
    /\ r.t = "obj" /\ Len(r.kids) = 1 /\ HasKey(r, "errors")
    /\ Get(r, "errors").t = "arr" /\ Len(Get(r, "errors").kids) = 1
    /\ Len(FirstError(r).kids) = 2
    /\ Get(FirstError(r), "message").t = "str"
    /\ Extensions(r).t = "obj"

\* the upstream answered invocation i with a response whose body is not JSON
NonJsonAnswer(i) ==
    /\ upstream[i].kind = "response"
    /\ ~upstream[i].hasBody \/ ~IsJSON(upstream[i].body)

\* the upstream answered invocation i with a response whose body is JSON
JsonAnswer(i) ==
    /\ upstream[i].kind = "response"
    /\ upstream[i].hasBody /\ IsJSON(upstream[i].body)

Outcomes == {"Success", "GraphQLHttpError", "NonJsonResponse", "TransportFailure"}

\* C1: whatever the upstream does, a finished invocation has returned one
\* envelope { content: [ { type: "text", text } ] } whose text is the JSON
\* serialization of the executor's result, and no invocation ever ends by
\* throwing; before it finishes it has returned nothing.
C1_EnvelopeAlwaysReturned ==
    \A i \in Inv :
        /\ pc[i] \in {"idle", "refused", "awaiting", "parsing", "reading_text", "done"}
        /\ Done(i) =>
            /\ result[i] # JUndefined
            /\ Len(envelope[i].content) = 1
            /\ envelope[i].content[1].type = "text"
            /\ envelope[i].content[1].text = JSONstringify(result[i])
        /\ ~Done(i) => envelope[i] = NoEnvelope

\* C1 witness: an invocation finished with an envelope after the read of a
\* non-JSON body failed inside the executor.
C1_Witness ==
    \E i \in Inv :
        /\ Done(i) /\ NonJsonAnswer(i) /\ upstream[i].hasBody
        /\ Len(envelope[i].content) = 1

\* C2 (as claimed): a response whose body is not JSON gives the non-JSON
\* result, with the status and the body text cut to 1000 characters, and is
\* never reported as a client error.
C2_NonJsonClassified ==
    \A i \in Inv :
        (Done(i) /\ NonJsonAnswer(i)) =>
            /\ outcome[i] = "NonJsonResponse"
            /\ IsErrorShape(result[i])
            /\ Get(Extensions(result[i]), "statusCode") = JNum(upstream[i].status)
            /\ Get(Extensions(result[i]), "responseText")
                 = JStr(Slice(upstream[i].body, ResponseTextLimit))
            /\ ~HasKey(Extensions(result[i]), "clientError")

\* C3 (as claimed): a response with a status outside 2xx gives the HTTP error
\* result with that status, whatever its body.
C3_HttpErrorWhateverBody ==
    \A i \in Inv :
        (Done(i) /\ upstream[i].kind = "response"
           /\ ~(upstream[i].status \in 200..299)) =>
            /\ outcome[i] = "GraphQLHttpError"
            /\ Get(Extensions(result[i]), "statusCode") = JNum(upstream[i].status)

\* C3 (amended): a response with a status outside 2xx whose body is JSON gives
\* the HTTP error result, with that status and the parsed body; one whose
\* body is not JSON is never reported as an HTTP error.
C3_HttpErrorForJsonBody ==
    \A i \in Inv :
        (Done(i) /\ upstream[i].kind = "response"
           /\ ~(upstream[i].status \in 200..299)) =>
            IF JsonAnswer(i)
            THEN /\ outcome[i] = "GraphQLHttpError"
                 /\ IsErrorShape(result[i])
                 /\ Get(Extensions(result[i]), "statusCode") = JNum(upstream[i].status)
                 /\ Get(Extensions(result[i]), "responseBody") = JSONparse(upstream[i].body)
                 /\ ~HasKey(Extensions(result[i]), "clientError")
            ELSE outcome[i] # "GraphQLHttpError"

\* C3 witness: a 404 with a JSON body was classified.
C3_Witness ==
    \E i \in Inv :
        /\ Done(i) /\ JsonAnswer(i) /\ upstream[i].status = 404
        /\ outcome[i] = "GraphQLHttpError"

\* C4 (as claimed): a 2xx response with a JSON body is returned as parsed, and
\* the envelope's text, parsed, is that body.
C4_SuccessVerbatim ==
    \A i \in Inv :
        (Done(i) /\ JsonAnswer(i) /\ upstream[i].status \in 200..299) =>
            /\ outcome[i] = "Success"
            /\ result[i] = JSONparse(upstream[i].body)
            /\ SyntaxToValue(envelope[i].content[1].text) = JSONparse(upstream[i].body)

\* C5: a fetch that rejects gives the client-error result: the message is
\* the Error's message, or String(value) for any other value; clientError is
\* true; there is no statusCode; and the result is returned in the envelope.
C5_TransportFailure ==
    \A i \in Inv :
        (Done(i) /\ upstream[i].kind = "reject") =>
            LET err == upstream[i].error IN
            /\ outcome[i] = "TransportFailure"
            /\ IsErrorShape(result[i])
            /\ Get(FirstError(result[i]), "message")
                 = JStr(IF err.isError THEN err.message ELSE JsString(err.value))
            /\ Extensions(result[i]) = JObj(<<M("clientError", JTrue)>>)
            /\ ~HasKey(Extensions(result[i]), "statusCode")
            /\ envelope[i] = Envelope(result[i])

\* C5 witness: a fetch rejected with a value that is no Error.
C5_Witness ==
    \E i \in Inv :
        /\ Done(i) /\ upstream[i].kind = "reject" /\ ~upstream[i].error.isError
        /\ outcome[i] = "TransportFailure"

\* C6: an invocation calls fetch once, with a POST to the endpoint, and never
\* again; it finishes from exactly one of the four return statements, and
\* has returned from none of them before.
C6_OnePostOneOutcome ==
    \A i \in Inv :
        /\ posts[i] <= 1
        /\ Started(i) =>
            /\ posts[i] = 1
            /\ request[i].method = "POST"
            /\ request[i].url = "https://pharos-api.ncats.io/graphql"
        /\ ~Started(i) => posts[i] = 0
        /\ Done(i) => outcome[i] \in Outcomes
        /\ ~Done(i) => (outcome[i] = "none" /\ result[i] = JUndefined)

\* C6 witness: an invocation finished after a failure, having posted once.
C6_Witness ==
    \E i \in Inv :
        /\ Done(i) /\ outcome[i] = "TransportFailure" /\ posts[i] = 1

\* the urls whose pathname is /sse or lies under /sse/
SseUrls ==
    {"/sse", "/sse/", "/sse/message", "/sse?sessionId=1", "/sse/message?sessionId=1"}

\* C7 (as claimed): a request to any path other than /sse gets the fixed 404.
C7_OnlySseServed ==
    (httpRequest # NoHttpRequest /\ ~(httpRequest.url \in {"/sse", "/sse?sessionId=1"}))
        => httpResponse = NotFoundResponse

\* C7 (amended): a request whose path is /sse or begins with /sse/ is handed
\* to the event-stream transport; a request to any other path gets the fixed
\* response, 404 text/plain with the constant body naming /sse, whatever its
\* method, headers and body.
C7_SsePrefixServed ==
    httpRequest # NoHttpRequest =>
        IF httpRequest.url \in SseUrls
        THEN httpResponse.handler = "serveSSE"
        ELSE httpResponse =
               [handler |-> "fallback", status |-> 404, ContentType |-> "text/plain",
                body |-> "Pharos MCP Server - Path not found.\nAvailable MCP paths:\n- /sse (for Server-Sent Events transport)"]

\* C7 witness: a POST to /ssefoo got the fixed 404.
C7_Witness ==
    /\ httpRequest.url = "/ssefoo" /\ httpRequest.method = "POST"
    /\ httpResponse.status = 404 /\ httpResponse.handler = "fallback"

\* C8 (as claimed): a call whose query is the empty string is refused and
\* sends nothing upstream.
C8_EmptyQueryRefused ==
    \A i \in Inv :
        args[i].query = JStr("") => (posts[i] = 0 /\ ~Started(i))

\* C8 (amended): a call is admitted exactly when query is a string, the empty
\* string included, and variables is absent or an object; an admitted call
\* sends its request, a refused one sends nothing.
C8_AnyStringAdmitted ==
    \A i \in Inv :
        pc[i] # "idle" =>
            LET admitted == /\ args[i].query.t = "str"
                            /\ args[i].variables.t \in {"undefined", "obj"}
            IN  /\ admitted <=> Started(i)
                /\ ~admitted <=> pc[i] = "refused"
                /\ Started(i) => (posts[i] = 1 /\ request[i] # NoRequest)
                /\ pc[i] = "refused" => (posts[i] = 0 /\ request[i] = NoRequest)

\* C8 witness: a call with the empty query has sent its request.
C8_Witness ==
    \E i \in Inv :
        /\ args[i].query = JStr("") /\ posts[i] = 1
        /\ Get(SyntaxToValue(request[i].body), "query") = JStr("")

C10_Independent ==
    \A i, j \in Inv :
        (Done(i) /\ Done(j) /\ args[i] = args[j] /\ upstream[i] = upstream[j])
            => (envelope[i] = envelope[j] /\ outcome[i] = outcome[j])

\* C10 witness: two invocations with the same arguments and the same response
\* have both finished.
C10_Witness ==
    \E i, j \in Inv :
        /\ i # j /\ Done(i) /\ Done(j)
        /\ args[i] = args[j] /\ upstream[i] = upstream[j]
        /\ upstream[i].kind = "response"
        /\ envelope[i] = envelope[j]

\* A 2xx response whose JSON body holds only numbers of the double range is
\* returned as parsed, and the envelope's text, parsed, is that body (the
\* part of C4 that the code does keep).
SuccessVerbatimInDoubleRange ==
    \A i \in Inv :
        (Done(i) /\ JsonAnswer(i) /\ upstream[i].status \in 200..299
           /\ upstream[i].body # HugeBodyText) =>
            /\ outcome[i] = "Success"
            /\ result[i] = JSONparse(upstream[i].body)
            /\ SyntaxToValue(envelope[i].content[1].text) = JSONparse(upstream[i].body)

====
